---- MODULE Spec2Model ----
(***************************************************************************)
(* Model of interface_android_stub.go (package anet): the Android          *)
(* replacement for net.Interfaces and friends, which rebuilds the          *)
(* interface and address tables from an RTM_GETADDR netlink dump.          *)
(*                                                                         *)
(* A netlink dump is a sequence of message records                         *)
(*   [Type, Index, Family, Prefixlen, attrs]                               *)
(* (header type and the IfAddrmsg fields the code reads; attrs is what     *)
(* ParseNetlinkRouteAttr gives for the message: [err, list]).  The three   *)
(* ioctl sub-queries newLink issues for the record at stream position i    *)
(* answer with io[i].                                                      *)
(***************************************************************************)
EXTENDS Integers, Sequences, FiniteSets, TLC

VARIABLES customAndroidApiLevel, deviceApiLevel, lastVersion, pc, call

vars == <<customAndroidApiLevel, deviceApiLevel, lastVersion, pc, call>>

(***************************************************************************)
(* Program constants.                                                      *)
(***************************************************************************)
android11ApiLevel == 30

NLMSG_DONE == 3
RTM_NEWADDR == 20
\* a message type the scanning switch has no case for
RTM_DELADDR == RTM_NEWADDR + 1

AF_UNSPEC == 0
AF_INET == 2
AF_INET6 == 10

IFA_ADDRESS == 1
IFA_LOCAL == 2
\* an attribute type that is neither the address nor the local address
IFA_LABEL == IFA_LOCAL + 1

IPv4len == 4
IPv6len == 16

\* Go's nil pointer or nil interface value
NIL == [kind |-> "nil"]
\* an expression whose evaluation panics (index out of range)
PANIC == [kind |-> "panic"]
\* Go's nil error
noErr == "nil"
\* the call does not return: a run-time panic unwinds it
errPanic == "panic"

errInvalidInterface == "invalid network interface"
errInvalidInterfaceIndex == "invalid network interface index"
errInvalidInterfaceName == "invalid network interface name"
errNoSuchInterface == "no such network interface"
\* an errno from socket() or ioctl()
errIoctl == "ioctl"
\* os.NewSyscallError tags
errNetlinkRIB == "netlinkrib"
errParseNetlinkMessage == "parsenetlinkmessage"
errParseNetlinkRouteAttr == "parsenetlinkrouteattr"

(***************************************************************************)
(* Bounds of the model.                                                    *)
(***************************************************************************)
\* interface indices are 1..MaxIndex: the kernel numbers interfaces from 1,
\* and InterfaceByIndex rejects an index <= 0
MaxIndex == 2
\* longest netlink dump
MaxMsgs == 3
\* longest attribute list handed to newAddr on its own
MaxAttrs == 3

IfIndices == 1 .. MaxIndex

SeqsUpTo(S, n) == UNION {[1 .. k -> S] : k \in 0 .. n}

Range(s) == {s[i] : i \in 1 .. Len(s)}

(***************************************************************************)
(* Per-interface property queries (ioctl).  A reply says which of the      *)
(* three ioctls fail and what the successful ones return.                  *)
(***************************************************************************)
IfNames == <<"lo", "eth0", "wlan0", "rmnet0", "tun0">>

\* SIOCGIFNAME
indexToName(index, reply) ==
    IF reply.nameErr THEN [v |-> "", err |-> errIoctl]
    ELSE [v |-> IfNames[index], err |-> noErr]

\* SIOCGIFMTU
nameToMTU(name, reply) ==
    IF reply.mtuErr THEN [v |-> -1, err |-> errIoctl]
    ELSE [v |-> reply.mtu, err |-> noErr]

linkFlags(rawFlags) ==
    (IF "IFF_UP" \in rawFlags THEN {"FlagUp"} ELSE {})
    \cup (IF "IFF_RUNNING" \in rawFlags THEN {"FlagRunning"} ELSE {})
    \cup (IF "IFF_BROADCAST" \in rawFlags THEN {"FlagBroadcast"} ELSE {})
    \cup (IF "IFF_LOOPBACK" \in rawFlags THEN {"FlagLoopback"} ELSE {})
    \cup (IF "IFF_POINTOPOINT" \in rawFlags THEN {"FlagPointToPoint"} ELSE {})
    \cup (IF "IFF_MULTICAST" \in rawFlags THEN {"FlagMulticast"} ELSE {})

\* SIOCGIFFLAGS
nameToFlags(name, reply) ==
    IF reply.flagsErr THEN [v |-> {}, err |-> errIoctl]
    ELSE [v |-> linkFlags(reply.rawFlags), err |-> noErr]

\* newLink without the return on a failed SIOCGIFMTU: the record it hands
\* back is missing its MTU and its flags
newLinkKeepsOnMTUError(ifam, reply) ==
    LET name == indexToName(ifam.Index, reply) IN
    IF name.err # noErr THEN NIL
    ELSE [kind |-> "Interface", Index |-> ifam.Index, Name |-> name.v,
          MTU |-> IF reply.mtuErr THEN 0 ELSE reply.mtu,
          Flags |-> IF reply.mtuErr \/ reply.flagsErr THEN {}
                    ELSE linkFlags(reply.rawFlags)]

newLink(ifam, reply) ==
    LET name == indexToName(ifam.Index, reply) IN
    IF name.err # noErr THEN NIL
    ELSE LET mtu == nameToMTU(name.v, reply) IN
         IF mtu.err # noErr THEN NIL
         ELSE LET flags == nameToFlags(name.v, reply) IN
              IF flags.err # noErr THEN NIL
              ELSE [kind |-> "Interface", Index |-> ifam.Index,
                    Name |-> name.v, MTU |-> mtu.v, Flags |-> flags.v]

(***************************************************************************)
(* interfaceTable: the scan of the dump.  st.ift is the table built so     *)
(* far, st.im the indices already seen; st.queried (the stream positions   *)
(* at which newLink ran) and st.last (the last position examined) record   *)
(* what the scan did.                                                      *)
(***************************************************************************)
\* case syscall.NLMSG_DONE of interfaceTable's switch
linkDone(m) == m.Type = NLMSG_DONE

\* the index is already in the map im
seenIndexNever(im, index) == FALSE

seenIndex(im, index) == index \in im

\* the record is one the caller asked for
wantedAlways(ifindex, index) == TRUE

wanted(ifindex, index) == ifindex = 0 \/ ifindex = index

\* the early exit once the one interface asked for was handled
stopsAt(ifindex, index) == ifindex = index

RECURSIVE linkScan(_, _, _, _, _)
linkScan(msgs, io, ifindex, i, st) ==
    IF i > Len(msgs) THEN st
    ELSE
      LET m == msgs[i]
          at == [st EXCEPT !.last = i]
      IN
      IF linkDone(m) THEN at
      ELSE IF m.Type = RTM_NEWADDR THEN
          IF seenIndex(st.im, m.Index) THEN linkScan(msgs, io, ifindex, i + 1, at)
          ELSE
            LET seen == [at EXCEPT !.im = @ \cup {m.Index}] IN
            IF wanted(ifindex, m.Index) THEN
                LET ifi == newLink(m, io[i])
                    got == [seen EXCEPT
                              !.ift = IF ifi # NIL THEN Append(@, ifi) ELSE @,
                              !.queried = Append(@, i)]
                IN IF stopsAt(ifindex, m.Index) THEN got
                   ELSE linkScan(msgs, io, ifindex, i + 1, got)
            ELSE linkScan(msgs, io, ifindex, i + 1, seen)
      ELSE linkScan(msgs, io, ifindex, i + 1, at)

\* tab is what NetlinkRIB and ParseNetlinkMessage give:
\* [ribErr, parseErr, msgs]; io are the ioctl replies by stream position.
interfaceTable(tab, io, ifindex) ==
    IF tab.ribErr
    THEN [ift |-> <<>>, err |-> errNetlinkRIB, queried |-> <<>>, last |-> 0]
    ELSE IF tab.parseErr
    THEN [ift |-> <<>>, err |-> errParseNetlinkMessage, queried |-> <<>>, last |-> 0]
    ELSE LET st == linkScan(tab.msgs, io, ifindex, 1,
                            [ift |-> <<>>, im |-> {}, queried |-> <<>>, last |-> 0])
         IN [ift |-> st.ift, err |-> noErr, queried |-> st.queried, last |-> st.last]

RECURSIVE interfaceByIndexFrom(_, _, _)
interfaceByIndexFrom(ift, index, k) ==
    IF k > Len(ift) THEN [ifi |-> NIL, err |-> errNoSuchInterface]
    ELSE IF index = ift[k].Index THEN [ifi |-> ift[k], err |-> noErr]
    ELSE interfaceByIndexFrom(ift, index, k + 1)

interfaceByIndex(ift, index) == interfaceByIndexFrom(ift, index, 1)

(***************************************************************************)
(* newAddr and the library conversions it uses.                            *)
(***************************************************************************)
\* net.IPv4: the 16-byte IPv4-in-IPv6 form
IPv4(a, b, c, d) == <<0, 0, 0, 0, 0, 0, 0, 0, 0, 0, 255, 255, a, b, c, d>>

\* make(net.IP, IPv6len) followed by copy(ifa.IP, value)
IPv6Copy(value) ==
    [k \in 1 .. IPv6len |-> IF k <= Len(value) THEN value[k] ELSE 0]

\* net.CIDRMask: nil unless 0 <= ones <= bits
CIDRMask(ones, bits) ==
    IF bits # 8 * IPv4len /\ bits # 8 * IPv6len THEN NIL
    ELSE IF ones < 0 \/ ones > bits THEN NIL
    ELSE [ones |-> ones, bits |-> bits]

\* net.IP.To4: the 4 address bytes of an IPv4 address, NIL for any other
To4(ip) ==
    IF Len(ip) = IPv4len THEN ip
    ELSE IF Len(ip) = IPv6len
            /\ \A k \in 1 .. 10 : ip[k] = 0
            /\ ip[11] = 255 /\ ip[12] = 255
         THEN SubSeq(ip, 13, 16)
    ELSE <<>>

ipv4Net(ifam, a) ==
    [kind |-> "IPNet",
     IP |-> IPv4(a.Value[1], a.Value[2], a.Value[3], a.Value[4]),
     Mask |-> CIDRMask(ifam.Prefixlen, 8 * IPv4len)]

\* the IPv6 case with the IPv4 mask width
ipv6NetMask32(ifam, a) ==
    [kind |-> "IPNet", IP |-> IPv6Copy(a.Value),
     Mask |-> CIDRMask(ifam.Prefixlen, 8 * IPv4len)]

ipv6Net(ifam, a) ==
    [kind |-> "IPNet", IP |-> IPv6Copy(a.Value),
     Mask |-> CIDRMask(ifam.Prefixlen, 8 * IPv6len)]

RECURSIVE newAddrFrom(_, _, _, _)
newAddrFrom(ifam, attrs, ipPointToPoint, k) ==
    IF k > Len(attrs) THEN NIL
    ELSE
      LET a == attrs[k] IN
      IF ipPointToPoint /\ a.Type = IFA_ADDRESS
      THEN newAddrFrom(ifam, attrs, ipPointToPoint, k + 1)
      ELSE IF ifam.Family = AF_INET THEN
          IF Len(a.Value) < IPv4len THEN PANIC
          ELSE ipv4Net(ifam, a)
      ELSE IF ifam.Family = AF_INET6 THEN ipv6Net(ifam, a)
      ELSE newAddrFrom(ifam, attrs, ipPointToPoint, k + 1)

newAddr(ifam, attrs) ==
    LET ipPointToPoint == \E k \in 1 .. Len(attrs) : attrs[k].Type = IFA_LOCAL
    IN newAddrFrom(ifam, attrs, ipPointToPoint, 1)

(***************************************************************************)
(* addrTable: st.ifat is the address list built so far, st.from the        *)
(* stream position each entry came from.                                   *)
(***************************************************************************)
\* addrTable's switch without its case syscall.NLMSG_DONE
addrDoneNever(m) == FALSE

\* case syscall.NLMSG_DONE of addrTable's switch
addrDone(m) == m.Type = NLMSG_DONE

\* the selection without the comparison of the indices
selectedAny(ift, ifi, ifam) == TRUE

\* len(ift) != 0 || ifi.Index == int(ifam.Index), for a non-nil ifi or a
\* non-empty ift
selected(ift, ifi, ifam) == Len(ift) # 0 \/ ifi.Index = ifam.Index

RECURSIVE addrScan(_, _, _, _, _)
addrScan(ift, ifi, msgs, i, st) ==
    IF i > Len(msgs) THEN st
    ELSE
      LET m == msgs[i] IN
      IF addrDone(m) THEN st
      ELSE IF m.Type = RTM_NEWADDR THEN
          IF Len(ift) = 0 /\ ifi = NIL
          THEN [ifat |-> <<>>, from |-> <<>>, err |-> errPanic]
          ELSE IF selected(ift, ifi, m) THEN
              IF m.attrs.err
              THEN [ifat |-> <<>>, from |-> <<>>, err |-> errParseNetlinkRouteAttr]
              ELSE LET ifa == newAddr(m, m.attrs.list) IN
                   IF ifa = PANIC
                   THEN [ifat |-> <<>>, from |-> <<>>, err |-> errPanic]
                   ELSE IF ifa # NIL
                   THEN addrScan(ift, ifi, msgs, i + 1,
                                 [st EXCEPT !.ifat = Append(@, ifa),
                                            !.from = Append(@, i)])
                   ELSE addrScan(ift, ifi, msgs, i + 1, st)
          ELSE addrScan(ift, ifi, msgs, i + 1, st)
      ELSE addrScan(ift, ifi, msgs, i + 1, st)

addrTable(ift, ifi, msgs) ==
    addrScan(ift, ifi, msgs, 1, [ifat |-> <<>>, from |-> <<>>, err |-> noErr])

\* tab is this call's own dump; tab2 and io2 are the second dump and the
\* ioctl replies of the nested interfaceTable(0) call.
interfaceAddrTable(ifi, tab, tab2, io2) ==
    IF tab.ribErr THEN [ifat |-> <<>>, from |-> <<>>, err |-> errNetlinkRIB]
    ELSE IF tab.parseErr
    THEN [ifat |-> <<>>, from |-> <<>>, err |-> errParseNetlinkMessage]
    ELSE
      LET it == IF ifi = NIL THEN interfaceTable(tab2, io2, 0)
                ELSE [ift |-> <<>>, err |-> noErr]
      IN IF it.err # noErr THEN [ifat |-> <<>>, from |-> <<>>, err |-> it.err]
         ELSE addrTable(it.ift, ifi, tab.msgs)

(***************************************************************************)
(* The version gate.                                                       *)
(***************************************************************************)
androidApiLevel ==
    IF customAndroidApiLevel # -1 THEN customAndroidApiLevel
    ELSE deviceApiLevel

\* every error an entry point returns is wrapped as
\* &net.OpError{Op: "route", Net: "ip+net", Err: err}; the model keeps err.
NoScan == [ift |-> <<>>, err |-> noErr, queried |-> <<>>, last |-> 0]

NoTab == [ribErr |-> FALSE, parseErr |-> FALSE, msgs |-> <<>>]

\* Interfaces on the netlink path (zoneCache.update is a no-op)
InterfacesNetlink(tab, io) ==
    LET t == interfaceTable(tab, io, 0) IN
    [ret |-> t.ift, err |-> t.err, scan |-> t, from |-> <<>>]

\* InterfaceByIndex on the netlink path
InterfaceByIndexNetlink(index, tab, io) ==
    IF index <= 0
    THEN [ret |-> NIL, err |-> errInvalidInterfaceIndex, scan |-> NoScan,
          from |-> <<>>]
    ELSE LET t == interfaceTable(tab, io, index) IN
         IF t.err # noErr
         THEN [ret |-> NIL, err |-> t.err, scan |-> t, from |-> <<>>]
         ELSE LET r == interfaceByIndex(t.ift, index) IN
              [ret |-> r.ifi, err |-> r.err, scan |-> t, from |-> <<>>]

RECURSIVE interfaceByNameFrom(_, _, _)
interfaceByNameFrom(ift, name, k) ==
    IF k > Len(ift) THEN [ifi |-> NIL, err |-> errNoSuchInterface]
    ELSE IF name = ift[k].Name THEN [ifi |-> ift[k], err |-> noErr]
    ELSE interfaceByNameFrom(ift, name, k + 1)

\* InterfaceByName: there is no other path
InterfaceByNameNetlink(name, tab, io) ==
    IF name = ""
    THEN [ret |-> NIL, err |-> errInvalidInterfaceName, scan |-> NoScan,
          from |-> <<>>]
    ELSE LET t == interfaceTable(tab, io, 0) IN
         IF t.err # noErr
         THEN [ret |-> NIL, err |-> t.err, scan |-> t, from |-> <<>>]
         ELSE LET r == interfaceByNameFrom(t.ift, name, 1) IN
              [ret |-> r.ifi, err |-> r.err, scan |-> t, from |-> <<>>]

\* InterfaceAddrs (ifi = NIL) and InterfaceAddrsByInterface on the netlink
\* path; scan is the nested interfaceTable(0) call of the first.
InterfaceAddrsNetlink(ifi, tab, tab2, io2) ==
    LET r == interfaceAddrTable(ifi, tab, tab2, io2) IN
    [ret |-> r.ifat, err |-> r.err, from |-> r.from,
     scan |-> IF ifi = NIL /\ ~tab.ribErr /\ ~tab.parseErr
              THEN interfaceTable(tab2, io2, 0) ELSE NoScan]

(***************************************************************************)
(* The inputs: netlink dumps and ioctl replies.                            *)
(***************************************************************************)
replyOk(mtu) ==
    [nameErr |-> FALSE, mtuErr |-> FALSE, flagsErr |-> FALSE, mtu |-> mtu,
     rawFlags |-> {"IFF_UP", "IFF_MULTICAST", "IFF_NOARP"}]

replyNameFails == [replyOk(0) EXCEPT !.nameErr = TRUE]

replyMTUFails == [replyOk(0) EXCEPT !.mtuErr = TRUE]

replyFlagsFails == [replyOk(0) EXCEPT !.flagsErr = TRUE]

FailingReplies == {replyNameFails, replyMTUFails, replyFlagsFails}

Replies == {replyOk(1500), replyOk(1280)} \cup FailingReplies

Attr(type, value) == [Type |-> type, Value |-> value]

ipA == <<10, 0, 0, 5>>

ipB == <<10, 0, 0, 6>>

ip6A == <<254, 128, 0, 0, 0, 0, 0, 0, 0, 0, 0, 0, 0, 0, 0, 1>>

\* the label "lo": shorter than an IPv4 address
labelLo == <<108, 111, 0>>

\* the label "eth0"
labelEth0 == <<101, 116, 104, 48, 0>>

Parsed(list) == [err |-> FALSE, list |-> list]

\* what a new-address record carries besides its index
payloadAddr == [Family |-> AF_INET, Prefixlen |-> 24,
                attrs |-> Parsed(<<Attr(IFA_ADDRESS, ipA)>>)]

payloadLocalPeer == [Family |-> AF_INET, Prefixlen |-> 32,
                     attrs |-> Parsed(<<Attr(IFA_LOCAL, ipB), Attr(IFA_ADDRESS, ipA)>>)]

payloadV6 == [Family |-> AF_INET6, Prefixlen |-> 64,
              attrs |-> Parsed(<<Attr(IFA_ADDRESS, ip6A)>>)]

payloadOtherFamily == [Family |-> AF_UNSPEC, Prefixlen |-> 0,
                       attrs |-> Parsed(<<Attr(IFA_ADDRESS, ipA)>>)]

payloadMalformed == [Family |-> AF_INET, Prefixlen |-> 24,
                     attrs |-> [err |-> TRUE, list |-> <<>>]]

Payloads == {payloadAddr, payloadLocalPeer, payloadV6, payloadOtherFamily,
             payloadMalformed}

NewAddrMsg(index, p) ==
    [Type |-> RTM_NEWADDR, Index |-> index, Family |-> p.Family,
     Prefixlen |-> p.Prefixlen, attrs |-> p.attrs]

DoneMsg ==
    [Type |-> NLMSG_DONE, Index |-> 0, Family |-> AF_UNSPEC, Prefixlen |-> 0,
     attrs |-> Parsed(<<>>)]

DelAddrMsg == [NewAddrMsg(1, payloadAddr) EXCEPT !.Type = RTM_DELADDR]

\* a message together with the ioctl replies its position gets
LinkItems(R) ==
    {[m |-> DoneMsg, io |-> replyOk(1500)], [m |-> DelAddrMsg, io |-> replyOk(1500)]}
    \cup {[m |-> NewAddrMsg(i, payloadAddr), io |-> r] : i \in IfIndices, r \in R}

AddrMsgs(P) ==
    {DoneMsg, DelAddrMsg} \cup {NewAddrMsg(i, p) : i \in IfIndices, p \in P}

FailedTabs ==
    {[ribErr |-> TRUE, parseErr |-> FALSE, msgs |-> <<>>],
     [ribErr |-> FALSE, parseErr |-> TRUE, msgs |-> <<>>]}

OkTab(msgs) == [ribErr |-> FALSE, parseErr |-> FALSE, msgs |-> msgs]

\* dumps with their ioctl replies: [tab, io]
LinkDumps(R, n) ==
    {[tab |-> t, io |-> <<>>] : t \in FailedTabs}
    \cup {[tab |-> OkTab([k \in 1 .. Len(s) |-> s[k].m]),
           io |-> [k \in 1 .. Len(s) |-> s[k].io]] : s \in SeqsUpTo(LinkItems(R), n)}

AddrDumps(P, n) ==
    FailedTabs \cup {OkTab(s) : s \in SeqsUpTo(AddrMsgs(P), n)}

\* a resolved interface, as a caller of InterfaceAddrsByInterface holds it
Iface(index) == newLink([Index |-> index], replyOk(1500))

(***************************************************************************)
(* The calls.  call records the last call: its inputs (arg, the dump tab   *)
(* and the ioctl replies io), the path the gate chose, what it returned    *)
(* (ret, err; err = errPanic when it panicked instead) and what its scans  *)
(* did (scan, from).                                                       *)
(***************************************************************************)
NoCall ==
    [op |-> "", arg |-> NIL, path |-> "none", tab |-> NoTab, io |-> <<>>,
     ret |-> NIL, err |-> noErr, scan |-> NoScan, from |-> <<>>]

\* the call was handed to the net package
Conventional(op, arg) == [NoCall EXCEPT !.op = op, !.arg = arg, !.path = "net"]

\* the call returned before the gate or a dump was reached
Rejected(op, arg, path, err) ==
    [NoCall EXCEPT !.op = op, !.arg = arg, !.path = path, !.err = err]

Netlink(op, arg, tab, io, out) ==
    [op |-> op, arg |-> arg, path |-> "netlink", tab |-> tab, io |-> io,
     ret |-> out.ret, err |-> out.err, scan |-> out.scan, from |-> out.from]

Returns(c) ==
    /\ pc' = "returned"
    /\ call' = c
    /\ UNCHANGED <<customAndroidApiLevel, deviceApiLevel, lastVersion>>

Versions == {0, 10, 11}

SetAndroidVersion ==
    /\ pc = "idle"
    /\ \E version \in Versions :
          /\ customAndroidApiLevel' =
                IF version = 0 THEN -1
                ELSE IF version >= 11 THEN android11ApiLevel
                ELSE 0
          /\ lastVersion' = <<version>>
    /\ UNCHANGED <<deviceApiLevel, pc, call>>

DoInterfaces(LD) ==
    /\ pc = "idle"
    /\ IF androidApiLevel < android11ApiLevel
       THEN Returns(Conventional("Interfaces", NIL))
       ELSE \E d \in LD :
              Returns(Netlink("Interfaces", NIL, d.tab, d.io,
                              InterfacesNetlink(d.tab, d.io)))

DoInterfaceByIndex(LD) ==
    /\ pc = "idle"
    /\ \E index \in 0 .. MaxIndex :
         IF androidApiLevel < android11ApiLevel
         THEN Returns(Conventional("InterfaceByIndex", index))
         ELSE IF index <= 0
         THEN Returns(Rejected("InterfaceByIndex", index, "netlink",
                               InterfaceByIndexNetlink(index, NoTab, <<>>).err))
         ELSE \E d \in LD :
                Returns(Netlink("InterfaceByIndex", index, d.tab, d.io,
                                InterfaceByIndexNetlink(index, d.tab, d.io)))

NameArgs == {""} \cup {IfNames[i] : i \in 1 .. MaxIndex + 1}

DoInterfaceByName(LD) ==
    /\ pc = "idle"
    /\ \E name \in NameArgs :
         IF name = ""
         THEN Returns(Rejected("InterfaceByName", name, "none",
                               InterfaceByNameNetlink(name, NoTab, <<>>).err))
         ELSE \E d \in LD :
                Returns(Netlink("InterfaceByName", name, d.tab, d.io,
                                InterfaceByNameNetlink(name, d.tab, d.io)))

DoInterfaceAddrsByInterface(AD) ==
    /\ pc = "idle"
    /\ \E ifi \in {NIL} \cup {Iface(i) : i \in IfIndices} :
         IF ifi = NIL
         THEN Returns(Rejected("InterfaceAddrsByInterface", ifi, "none",
                               errInvalidInterface))
         ELSE IF androidApiLevel < android11ApiLevel
         THEN Returns(Conventional("InterfaceAddrsByInterface", ifi))
         ELSE \E tab \in AD :
                Returns(Netlink("InterfaceAddrsByInterface", ifi, tab, <<>>,
                                InterfaceAddrsNetlink(ifi, tab, NoTab, <<>>)))

DoInterfaceAddrs(AD, LD) ==
    /\ pc = "idle"
    /\ IF androidApiLevel < android11ApiLevel
       THEN Returns(Conventional("InterfaceAddrs", NIL))
       ELSE \E tab \in AD :
              IF tab.ribErr \/ tab.parseErr
              THEN Returns(Netlink("InterfaceAddrs", NIL, tab, <<>>,
                                   InterfaceAddrsNetlink(NIL, tab, NoTab, <<>>)))
              ELSE \E d \in LD :
                     Returns(Netlink("InterfaceAddrs", NIL, tab, <<>>,
                                     InterfaceAddrsNetlink(NIL, tab, d.tab, d.io)))

Return ==
    /\ pc = "returned"
    /\ pc' = "idle"
    /\ call' = NoCall
    /\ UNCHANGED <<customAndroidApiLevel, deviceApiLevel, lastVersion>>

(***************************************************************************)
(* Spec: the entry points behind the version gate, on short dumps.         *)
(***************************************************************************)
DeviceApiLevels == {android11ApiLevel - 1, android11ApiLevel}

RibPayloads == {payloadAddr, payloadLocalPeer, payloadMalformed}

RibReplies == {replyOk(1500)} \cup FailingReplies

RibLinkDumps == LinkDumps(RibReplies, MaxMsgs - 1)

RibAddrDumps == AddrDumps(RibPayloads, MaxMsgs - 1)

\* the dumps of the interfaceTable(0) call nested in InterfaceAddrs
NestedLinkDumps == LinkDumps(RibReplies, MaxMsgs - 2)

Init ==
    /\ customAndroidApiLevel = -1
    /\ deviceApiLevel \in DeviceApiLevels
    /\ lastVersion = <<>>
    /\ pc = "idle"
    /\ call = NoCall

Interfaces == DoInterfaces(RibLinkDumps)

InterfaceByIndex == DoInterfaceByIndex(RibLinkDumps)

InterfaceByName == DoInterfaceByName(RibLinkDumps)

InterfaceAddrsByInterface == DoInterfaceAddrsByInterface(RibAddrDumps)

InterfaceAddrs == DoInterfaceAddrs(RibAddrDumps, NestedLinkDumps)

Next ==
    \/ SetAndroidVersion
    \/ Interfaces
    \/ InterfaceAddrs
    \/ InterfaceByIndex
    \/ InterfaceByName
    \/ InterfaceAddrsByInterface
    \/ Return

Spec == Init /\ [][Next]_vars

(***************************************************************************)
(* SpecNetlink: the netlink path after SetAndroidVersion(11), on dumps of  *)
(* up to MaxMsgs messages, and addrTable and newAddr applied on their own. *)
(***************************************************************************)
NetlinkLinkDumps == LinkDumps(Replies, MaxMsgs)

NetlinkAddrDumps == AddrDumps(Payloads, MaxMsgs)

InitNetlink ==
    /\ customAndroidApiLevel = android11ApiLevel
    /\ deviceApiLevel \in DeviceApiLevels
    /\ lastVersion = <<11>>
    /\ pc = "idle"
    /\ call = NoCall

NlInterfaces == DoInterfaces(NetlinkLinkDumps)

NlInterfaceByIndex == DoInterfaceByIndex(NetlinkLinkDumps)

NlInterfaceAddrsByInterface == DoInterfaceAddrsByInterface(NetlinkAddrDumps)

\* interface tables interfaceTable(0) can hand to addrTable
IftSamples == {<<>>, <<Iface(1)>>}

NlAddrTable ==
    /\ pc = "idle"
    /\ \E ift \in IftSamples, tab \in NetlinkAddrDumps :
         /\ ~tab.ribErr /\ ~tab.parseErr
         /\ LET r == addrTable(ift, NIL, tab.msgs) IN
            Returns([NoCall EXCEPT !.op = "addrTable", !.arg = ift,
                                   !.path = "netlink", !.tab = tab,
                                   !.ret = r.ifat, !.err = r.err, !.from = r.from])

PrefixLens(family) ==
    IF family = AF_INET THEN {0, 24, 8 * IPv4len}
    ELSE IF family = AF_INET6 THEN {0, 64, 8 * IPv6len}
    ELSE {0}

ip6B == <<254, 128, 0, 0, 0, 0, 0, 0, 0, 0, 0, 0, 0, 0, 0, 2>>

AttrSet ==
    {Attr(IFA_ADDRESS, ipA), Attr(IFA_LOCAL, ipB),
     Attr(IFA_ADDRESS, ip6A), Attr(IFA_LOCAL, ip6B),
     Attr(IFA_LABEL, labelEth0), Attr(IFA_LABEL, labelLo)}

NlNewAddr ==
    /\ pc = "idle"
    /\ \E family \in {AF_INET, AF_INET6, AF_UNSPEC} :
         \E prefixlen \in PrefixLens(family), attrs \in SeqsUpTo(AttrSet, MaxAttrs) :
           LET ifam == [Family |-> family, Prefixlen |-> prefixlen, attrs |-> attrs]
           IN Returns([NoCall EXCEPT !.op = "newAddr", !.arg = ifam,
                                     !.path = "netlink",
                                     !.ret = newAddr(ifam, attrs)])

NextNetlink ==
    \/ NlInterfaces
    \/ NlInterfaceByIndex
    \/ NlInterfaceAddrsByInterface
    \/ NlAddrTable
    \/ NlNewAddr
    \/ Return

SpecNetlink == InitNetlink /\ [][NextNetlink]_vars

(***************************************************************************)
(* Vocabulary of the properties.                                           *)
(***************************************************************************)
Returned(op) == pc = "returned" /\ call.op = op /\ call.path = "netlink"

\* the call took a dump and parsed it
Dumped == ~call.tab.ribErr /\ ~call.tab.parseErr

Msgs == call.tab.msgs

\* position of the first done marker, Len + 1 when there is none
DoneAt(msgs) ==
    IF \E i \in 1 .. Len(msgs) : msgs[i].Type = NLMSG_DONE
    THEN CHOOSE i \in 1 .. Len(msgs) :
           /\ msgs[i].Type = NLMSG_DONE
           /\ \A j \in 1 .. i - 1 : msgs[j].Type # NLMSG_DONE
    ELSE Len(msgs) + 1

\* the new-address records the scan can reach
Live(msgs) ==
    {i \in 1 .. DoneAt(msgs) - 1 : msgs[i].Type = RTM_NEWADDR}

LiveFor(msgs, index) == {i \in Live(msgs) : msgs[i].Index = index}

\* the first new-address record carrying the index
FirstOf(msgs, index) ==
    CHOOSE i \in LiveFor(msgs, index) : \A j \in LiveFor(msgs, index) : i <= j

Firsts(msgs) ==
    {i \in Live(msgs) : i = FirstOf(msgs, msgs[i].Index)}

Increasing(s) == \A j, k \in 1 .. Len(s) : j < k => s[j] < s[k]

Prefix(tab, n) == [tab EXCEPT !.msgs = SubSeq(@, 1, n)]

(***************************************************************************)
(* C1: Interfaces on the netlink path, given a dump with no done marker    *)
(* before its last message and no failing sub-query, returns one record    *)
(* per distinct index of the new-address records, each index once, in the  *)
(* order of the first record carrying each index.                          *)
(***************************************************************************)
C1_Premise ==
    /\ Returned("Interfaces")
    /\ Dumped
    /\ DoneAt(Msgs) >= Len(Msgs)
    /\ \A i \in Live(Msgs) : call.io[i] \notin FailingReplies

\* C1: one record per distinct index, in first-seen order
C1_OneRecordPerIndexInFirstSeenOrder ==
    C1_Premise =>
      /\ call.err = noErr
      /\ Len(call.ret) = Cardinality({Msgs[i].Index : i \in Live(Msgs)})
      /\ \A k \in 1 .. Len(call.ret) : LiveFor(Msgs, call.ret[k].Index) # {}
      /\ \A j, k \in 1 .. Len(call.ret) :
            j < k => FirstOf(Msgs, call.ret[j].Index) < FirstOf(Msgs, call.ret[k].Index)

\* two indices, the larger first and seen again after the smaller
C1_Witness ==
    /\ C1_Premise
    /\ Len(Msgs) = 3
    /\ \A i \in 1 .. 3 : Msgs[i].Type = RTM_NEWADDR
    /\ Msgs[1].Index = 2 /\ Msgs[2].Index = 1 /\ Msgs[3].Index = 2
    /\ Len(call.ret) = 2
    /\ call.ret[1].Index = 2 /\ call.ret[2].Index = 1

(***************************************************************************)
(* C8: in the bulk listing an index is in the result exactly when the      *)
(* three sub-queries succeeded at the first new-address record carrying    *)
(* it; the record then is that position's complete snapshot, the call is   *)
(* no error, and sub-queries run at first occurrences only.                *)
(***************************************************************************)
C8_Premise == Returned("Interfaces") /\ Dumped

\* C8: listed iff the first occurrence resolved completely; never retried
C8_PresentIffFirstOccurrenceResolved ==
    C8_Premise =>
      /\ call.err = noErr
      /\ Range(call.scan.queried) = Firsts(Msgs)
      /\ Increasing(call.scan.queried)
      /\ \A index \in IfIndices :
            (\E k \in 1 .. Len(call.ret) : call.ret[k].Index = index)
              <=> /\ LiveFor(Msgs, index) # {}
                  /\ call.io[FirstOf(Msgs, index)] \notin FailingReplies
      /\ \A k \in 1 .. Len(call.ret) :
            LET reply == call.io[FirstOf(Msgs, call.ret[k].Index)] IN
            /\ call.ret[k].Name = IfNames[call.ret[k].Index]
            /\ call.ret[k].MTU = reply.mtu
            /\ call.ret[k].Flags = {"FlagUp", "FlagMulticast"}
      /\ \A j, k \in 1 .. Len(call.ret) :
            call.ret[j].Index = call.ret[k].Index => j = k

\* index 1 fails its MTU query at its first record and would succeed at its
\* second; index 2 succeeds
C8_Witness ==
    /\ C8_Premise
    /\ Len(Msgs) = 3
    /\ \A i \in 1 .. 3 : Msgs[i].Type = RTM_NEWADDR
    /\ Msgs[1].Index = 1 /\ Msgs[2].Index = 1 /\ Msgs[3].Index = 2
    /\ call.io[1] = replyMTUFails
    /\ call.io[2] = replyOk(1500)
    /\ call.io[3] = replyOk(1280)
    /\ Len(call.ret) = 1
    /\ call.ret[1].Index = 2 /\ call.ret[1].MTU = 1280
    /\ call.scan.queried = <<1, 3>>

(***************************************************************************)
(* C9: InterfaceByIndex(t), t > 0: the table holds at most one record and  *)
(* only one of index t; the scan ends at the first new-address record      *)
(* carrying t, and sub-queries run for that record alone; without such a   *)
(* record before the done marker the call returns errNoSuchInterface.      *)
(***************************************************************************)
C9_Premise == Returned("InterfaceByIndex") /\ call.arg > 0 /\ Dumped

\* C9: at most the one record of index t, found by a scan that stops there
C9_SingleIndexStopsEarly ==
    C9_Premise =>
      /\ Len(call.scan.ift) <= 1
      /\ \A k \in 1 .. Len(call.scan.ift) : call.scan.ift[k].Index = call.arg
      /\ IF LiveFor(Msgs, call.arg) # {}
         THEN /\ call.scan.queried = <<FirstOf(Msgs, call.arg)>>
              /\ call.scan.last = FirstOf(Msgs, call.arg)
         ELSE /\ call.scan.queried = <<>>
              /\ call.ret = NIL
              /\ call.err = errNoSuchInterface
      /\ call.ret # NIL => call.ret.Index = call.arg /\ call.err = noErr

\* the record asked for lies between one of another index and a later one
C9_Witness ==
    /\ C9_Premise
    /\ call.arg = 2
    /\ Len(Msgs) = 3
    /\ \A i \in 1 .. 3 : Msgs[i].Type = RTM_NEWADDR
    /\ Msgs[1].Index = 1 /\ Msgs[2].Index = 2 /\ Msgs[3].Index = 1
    /\ call.scan.queried = <<2>>
    /\ call.scan.last = 2
    /\ call.ret # NIL
    /\ call.ret.Index = 2

(***************************************************************************)
(* C2: a done marker at position P ends both scans: nothing at a position  *)
(* after P contributes, and the result is that of the dump cut before P.   *)
(***************************************************************************)
C2_Premise ==
    /\ pc = "returned"
    /\ call.path = "netlink"
    /\ Dumped
    /\ DoneAt(Msgs) <= Len(Msgs)

C2_LinkOps == {"Interfaces", "InterfaceByIndex"}

C2_AddrOps == {"InterfaceAddrsByInterface", "addrTable"}

\* C2: the scans of interfaceTable and addrTable end at the done marker
C2_DoneEndsTheScan ==
    C2_Premise =>
      LET P == DoneAt(Msgs) IN
      /\ call.op \in C2_LinkOps =>
            LET cut == interfaceTable(Prefix(call.tab, P - 1),
                                      SubSeq(call.io, 1, P - 1),
                                      IF call.op = "Interfaces" THEN 0 ELSE call.arg)
            IN /\ \A k \in 1 .. Len(call.scan.queried) : call.scan.queried[k] < P
               /\ call.scan.last <= P
               /\ call.scan.ift = cut.ift
               /\ call.scan.queried = cut.queried
      /\ call.op \in C2_AddrOps =>
            LET cut == addrTable(IF call.op = "addrTable" THEN call.arg ELSE <<>>,
                                 IF call.op = "addrTable" THEN NIL ELSE call.arg,
                                 SubSeq(Msgs, 1, P - 1))
            IN /\ \A k \in 1 .. Len(call.from) : call.from[k] < P
               /\ call.ret = cut.ifat
               /\ call.err = cut.err

\* a record of the interface on either side of the done marker
C2_Witness ==
    /\ C2_Premise
    /\ call.op = "InterfaceAddrsByInterface"
    /\ call.arg.Index = 1
    /\ Msgs = <<NewAddrMsg(1, payloadAddr), DoneMsg, NewAddrMsg(1, payloadLocalPeer)>>
    /\ call.from = <<1>>
    /\ Len(call.ret) = 1

(***************************************************************************)
(* C4: InterfaceAddrsByInterface(ifi) on the netlink path returns one      *)
(* address for each new-address record before the done marker that         *)
(* carries ifi.Index and yields an address, in stream order, equal         *)
(* addresses included, and nothing from any other record.                  *)
(***************************************************************************)
\* the record has an attribute newAddr does not skip, and an IP family
Emits(m) ==
    /\ m.Family \in {AF_INET, AF_INET6}
    /\ \E k \in 1 .. Len(m.attrs.list) :
          ~(/\ m.attrs.list[k].Type = IFA_ADDRESS
            /\ \E j \in 1 .. Len(m.attrs.list) : m.attrs.list[j].Type = IFA_LOCAL)

C4_Premise == Returned("InterfaceAddrsByInterface") /\ Dumped

\* C4: exactly the address-yielding records of ifi.Index, in stream order
C4_OnlyTheInterfacesRecordsInOrder ==
    C4_Premise =>
      LET mine == LiveFor(Msgs, call.arg.Index) IN
      IF \E i \in mine : Msgs[i].attrs.err
      THEN call.err = errParseNetlinkRouteAttr /\ call.ret = <<>>
      ELSE /\ call.err = noErr
           /\ Len(call.ret) = Len(call.from)
           /\ Increasing(call.from)
           /\ Range(call.from) = {i \in mine : Emits(Msgs[i])}
           /\ \A k \in 1 .. Len(call.ret) : call.ret[k].kind = "IPNet"

\* two equal records of index 2 around a record of index 1
C4_Witness ==
    /\ C4_Premise
    /\ call.arg.Index = 2
    /\ Msgs = <<NewAddrMsg(2, payloadAddr), NewAddrMsg(1, payloadAddr),
                NewAddrMsg(2, payloadAddr)>>
    /\ call.from = <<1, 3>>
    /\ Len(call.ret) = 2
    /\ call.ret[1] = call.ret[2]

(***************************************************************************)
(* C5: a record with a usable attribute gives, for AF_INET, an IPv4        *)
(* address (4 address bytes) with a mask of width 32 and the record's      *)
(* prefix length; for AF_INET6, a 16-byte address with a mask of width     *)
(* 128 and the record's prefix length; for any other family nothing and    *)
(* no error, and the scan goes on to the next record.                      *)
(***************************************************************************)
\* the attribute newAddr builds the address from: the first it does not skip
KeptAttrs(attrs) ==
    {k \in 1 .. Len(attrs) :
       ~(/\ attrs[k].Type = IFA_ADDRESS
         /\ \E j \in 1 .. Len(attrs) : attrs[j].Type = IFA_LOCAL)}

FirstKept(attrs) ==
    CHOOSE k \in KeptAttrs(attrs) : \A j \in KeptAttrs(attrs) : k <= j

Usable(family, attrs) ==
    /\ KeptAttrs(attrs) # {}
    /\ family = AF_INET => Len(attrs[FirstKept(attrs)].Value) >= IPv4len

C5_NewAddrPart ==
    (pc = "returned" /\ call.op = "newAddr") =>
      LET ifam == call.arg IN
      /\ (ifam.Family = AF_INET /\ Usable(ifam.Family, ifam.attrs)) =>
            /\ call.ret.kind = "IPNet"
            /\ Len(To4(call.ret.IP)) = 4
            /\ call.ret.Mask = [ones |-> ifam.Prefixlen, bits |-> 32]
      /\ (ifam.Family = AF_INET6 /\ Usable(ifam.Family, ifam.attrs)) =>
            /\ call.ret.kind = "IPNet"
            /\ Len(call.ret.IP) = 16
            /\ call.ret.Mask = [ones |-> ifam.Prefixlen, bits |-> 128]
      /\ ifam.Family \notin {AF_INET, AF_INET6} => call.ret = NIL

C5_ScanPart ==
    (/\ pc = "returned"
     /\ call.op \in C2_AddrOps
     /\ call.path = "netlink"
     /\ Dumped
     /\ call.op = "addrTable" => Len(call.arg) # 0) =>
      LET mine == IF call.op = "addrTable" THEN Live(Msgs)
                  ELSE LiveFor(Msgs, call.arg.Index)
      IN (\A i \in mine : ~Msgs[i].attrs.err) =>
           /\ call.err = noErr
           /\ Range(call.from) = {i \in mine : Emits(Msgs[i])}
           /\ \A k \in 1 .. Len(call.ret) :
                 LET m == Msgs[call.from[k]] IN
                 call.ret[k].Mask =
                   [ones |-> m.Prefixlen,
                    bits |-> IF m.Family = AF_INET THEN 32 ELSE 128]

\* C5: AF_INET gives width 32, AF_INET6 width 128, both the record's prefix
\* length; another family gives nothing, no error, and the scan goes on
C5_FamilyDecidesWidth == C5_NewAddrPart /\ C5_ScanPart

\* a record of another family, then an IPv4 and an IPv6 record
C5_Witness ==
    /\ pc = "returned"
    /\ call.op = "addrTable"
    /\ Len(call.arg) # 0
    /\ Msgs = <<NewAddrMsg(1, payloadOtherFamily), NewAddrMsg(1, payloadAddr),
                NewAddrMsg(2, payloadV6)>>
    /\ call.err = noErr
    /\ call.from = <<2, 3>>
    /\ call.ret[1].Mask = [ones |-> 24, bits |-> 32]
    /\ call.ret[2].Mask = [ones |-> 64, bits |-> 128]
    /\ Len(call.ret[2].IP) = 16

(***************************************************************************)
(* C3: a record of family AF_INET or AF_INET6 whose attributes include     *)
(* both IFA_LOCAL and IFA_ADDRESS gives exactly one address, and its IP    *)
(* bytes are the value of the IFA_LOCAL attribute, whatever the order of   *)
(* the attributes and whatever else the list holds.                        *)
(***************************************************************************)
C3_Premise ==
    /\ pc = "returned"
    /\ call.op = "newAddr"
    /\ call.arg.Family \in {AF_INET, AF_INET6}
    /\ \E k \in 1 .. Len(call.arg.attrs) : call.arg.attrs[k].Type = IFA_LOCAL
    /\ \E k \in 1 .. Len(call.arg.attrs) : call.arg.attrs[k].Type = IFA_ADDRESS

\* C3: the one address emitted carries the IFA_LOCAL value
C3_LocalAddressIsEmitted ==
    C3_Premise =>
      /\ call.ret.kind = "IPNet"
      /\ \E k \in 1 .. Len(call.arg.attrs) :
            /\ call.arg.attrs[k].Type = IFA_LOCAL
            /\ IF call.arg.Family = AF_INET
               THEN To4(call.ret.IP) = SubSeq(call.arg.attrs[k].Value, 1, IPv4len)
               ELSE call.ret.IP = IPv6Copy(call.arg.attrs[k].Value)

(***************************************************************************)
(* C6: the path every query entry point takes is decided by the last       *)
(* SetAndroidVersion call alone: none or 0, the device's API level         *)
(* decides; 11 or more, the netlink path; 1..10, the net package.          *)
(***************************************************************************)
C6_ExpectedPath ==
    IF lastVersion = <<0>>
    THEN IF deviceApiLevel < android11ApiLevel THEN "net" ELSE "netlink"
    ELSE IF lastVersion[1] >= 11 THEN "netlink" ELSE "net"

\* C6: after a SetAndroidVersion call, every entry point that reaches the
\* gate takes the path the last version selects
C6_LastVersionDecidesThePath ==
    (pc = "returned" /\ call.path # "none" /\ lastVersion # <<>>)
      => call.path = C6_ExpectedPath

(***************************************************************************)
(* C7: when InterfaceByIndex or InterfaceByName resolves one interface     *)
(* and a sub-query fails at the first record of that interface ...         *)
(***************************************************************************)
\* the index of the interface the call asks for, 0 when it names none
C7_Target ==
    IF call.op = "InterfaceByIndex" THEN call.arg
    ELSE IF \E i \in IfIndices : IfNames[i] = call.arg
    THEN CHOOSE i \in IfIndices : IfNames[i] = call.arg
    ELSE 0

C7_Premise ==
    /\ pc = "returned"
    /\ call.op \in {"InterfaceByIndex", "InterfaceByName"}
    /\ call.path = "netlink"
    /\ Dumped
    /\ LiveFor(Msgs, C7_Target) # {}
    /\ call.io[FirstOf(Msgs, C7_Target)] \in FailingReplies

\* C7 as claimed: ... the sub-query's error is the error returned, not
\* errNoSuchInterface.
C7_SubQueryErrorPropagates ==
    C7_Premise => call.err = errIoctl /\ call.err # errNoSuchInterface

\* C7 as amended: ... the failure is swallowed: no interface is returned,
\* and the error returned is errNoSuchInterface, never the sub-query's.
C7_SubQueryFailureIsNotFound ==
    /\ C7_Premise => call.ret = NIL /\ call.err = errNoSuchInterface
    /\ pc = "returned" => call.err # errIoctl

\* by name, with the flags query failing
C7_Witness ==
    /\ C7_Premise
    /\ call.op = "InterfaceByName"
    /\ call.arg = "eth0"
    /\ Msgs = <<NewAddrMsg(2, payloadAddr)>>
    /\ call.io[1] = replyFlagsFails
    /\ call.err = errNoSuchInterface

(***************************************************************************)
(* C10: InterfaceAddrs never reads the index of its nil target: for every  *)
(* dump it returns a result or an error.                                   *)
(***************************************************************************)
\* C10: InterfaceAddrs returns; it does not panic on its nil target
C10_InterfaceAddrsNeverPanics ==
    (pc = "returned" /\ call.op = "InterfaceAddrs") => call.err # errPanic

====
